---- MODULE Spec2Model ----
(***************************************************************************)
(* Model of heka's pipeline/config.go: the PipelineConfig object, the Pack *)
(* pools and PipelinePack, dynamic Filter add/remove against the message   *)
(* router, and the configuration loader (loadSection, LoadFromConfigFile). *)
(***************************************************************************)
EXTENDS Integers, Sequences, FiniteSets, TLC

(***************************************************************************)
(* Bounds of the model.                                                    *)
(***************************************************************************)
\* globals.PoolSize: Packs preallocated in each recycle channel
PoolSize == 1
\* capacity of the router's inbound channel and of every filter inbound channel
ChanSize == 1
\* FilterRunner objects that exist (runner 1 is loaded from the configuration)
NRunners == 2
\* width of Go's uint in bits (scaled down)
UintBits == 2
\* Globals().MaxMsgLoops
MaxMsgLoops == 2

\* sections in a configuration file
MaxSections == 2
\* Globals().DecoderPoolSize
DecoderPoolSize == 2
\* the largest pool_size a section sets
MaxPoolSize == 3
\* goroutines that fetch DecoderRunners from the decoder channels
NConsumers == 2

\* the nil pointer / the absent map entry
Nil == 0
\* line 31: cap on the encoding ids a decoder can be bound to
MAX_HEADER_MESSAGEENCODING == 256

Runners == 1..NRunners
\* callers of AddFilterRunner / RemoveFilterRunner: 0 is a goroutine that is
\* no filter, 1 is the goroutine of filter runner 1
Callers == {0, 1}
\* FilterRunner.Name(): runners 1 and 2 share the name F
Name(r) == IF r <= 2 THEN "F" ELSE "G"
Names == {Name(r) : r \in Runners}

Consumers == 1..NConsumers

InputPacks == 1..PoolSize
InjectPacks == (PoolSize + 1)..(2 * PoolSize)
Packs == InputPacks \cup InjectPacks

\* arithmetic of Go's uint
Uint(n) == n % (2 ^ UintBits)
UintValues == 0..((2 ^ UintBits) - 1)

VARIABLES
  inputRecycleChan,   \* PipelineConfig.inputRecycleChan: sequence of Packs
  injectRecycleChan,  \* PipelineConfig.injectRecycleChan: sequence of Packs
  RefCount,           \* PipelinePack.RefCount, per Pack
  MsgLoopCount,       \* PipelinePack.MsgLoopCount, per Pack
  inputHeld,          \* the Pack an Input holds before handing it to the router
  routerIn,           \* router.inChan
  router,             \* the router goroutine: [pc, evt, pack, dests]
  fMatchers,          \* router.fMatchers (a matcher is named by its runner)
  inChan,             \* FilterRunner.InChan(), per runner
  closed,             \* whether a runner's inbound channel is closed
  rstate,             \* per runner: "new", "failed", "running", "exited"
  cur,                \* the Pack a filter is processing
  out,                \* the Pack a filter obtained from PipelinePack
  FilterRunners,      \* PipelineConfig.FilterRunners: name -> runner
  filtersLock,        \* PipelineConfig.filtersLock: the holder, or -1
  filtersWg,          \* PipelineConfig.filtersWg
  Stopping,           \* Globals().Stopping
  pc,                 \* per caller: position in Add/RemoveFilterRunner
  arg,                \* per caller: the argument of the call in progress, [fRunner, name]
  ret,                \* the return of the step just taken: [op, proc, name, num, val]
  panicked,           \* "none", or the run-time panic that ended the process
  configFile,         \* the decoded configuration: a set of sections
  todo,               \* the sections the range loop of line 555 has not reached
  phase,              \* position in LoadFromConfigFile
  errcnt,             \* line 554
  loadErr,            \* what LoadFromConfigFile returned
  logMsgs,            \* PipelineConfig.logMsgs
  InputRunners, inputWrappers, DecoderWrappers, filterWrappers,
  OutputRunners, outputWrappers,
  oMatchers,          \* router.oMatchers
  decoderChannels,    \* name -> [cap, q]: capacity and content of the channel
  allDecoders, decodersWg,
  DecodersByEncoding, topHeaderMessageEncoding,
  checkedOut,         \* per consumer: the DecoderRunner it took, or NoRunner
  lookup              \* the Filter(name) call in progress: [name, seen]

poolVars == <<inputRecycleChan, injectRecycleChan, RefCount, MsgLoopCount>>
routerVars == <<routerIn, router, fMatchers>>
filterVars == <<inChan, closed, rstate, cur, out>>
configVars == <<FilterRunners, filtersLock, filtersWg, Stopping>>
callVars == <<pc, arg>>
runVars == <<poolVars, inputHeld, routerIn, router, filterVars, filtersLock,
             filtersWg, Stopping, callVars, ret>>
loadVars == <<configFile, todo, phase, errcnt, loadErr, logMsgs, InputRunners,
              inputWrappers, DecoderWrappers, filterWrappers, OutputRunners,
              outputWrappers, oMatchers, decoderChannels, allDecoders, decodersWg,
              DecodersByEncoding, topHeaderMessageEncoding, checkedOut, lookup>>
vars == <<poolVars, inputHeld, routerVars, filterVars, configVars, callVars, ret,
          panicked, loadVars>>

Free == -1

\* the argument of a caller that is in no call
NoArg == [fRunner |-> Nil, name |-> ""]

\* no call returned in the step just taken
NoRet == [op |-> "none", proc |-> Free, name |-> "", num |-> Nil, val |-> ""]
Returns(op, p, name, num, val) ==
  ret' = [op |-> op, proc |-> p, name |-> name, num |-> num, val |-> val]

\* Seq helpers
SeqToSet(s) == {s[i] : i \in 1..Len(s)}
RECURSIVE Remove(_, _)
Remove(s, x) ==
  IF s = <<>> THEN <<>>
  ELSE IF Head(s) = x THEN Remove(Tail(s), x)
  ELSE <<Head(s)>> \o Remove(Tail(s), x)
RECURSIVE Filtered(_, _)
Filtered(s, S) ==
  IF s = <<>> THEN <<>>
  ELSE IF Head(s) \in S THEN <<Head(s)>> \o Filtered(Tail(s), S)
  ELSE Filtered(Tail(s), S)
RECURSIVE SeqOf(_, _)
SeqOf(lo, hi) == IF lo > hi THEN <<>> ELSE <<lo>> \o SeqOf(lo + 1, hi)

\* a consumer's nil DecoderRunner
NoRunner == [name |-> <<"", Nil>>, ok |-> FALSE]

\* no Filter(name) call is in progress
NoLookup == [name |-> "", seen |-> <<>>]

\* the empty map
EmptyMap == [n \in {} |-> Nil]

\* The loader's variables once the load is over (they play no part after it)
Loaded ==
  /\ configFile = {}
  /\ todo = {}
  /\ phase = "done"
  /\ errcnt = 0
  /\ loadErr = "nil"
  /\ logMsgs = <<>>
  /\ InputRunners = {} /\ inputWrappers = {}
  /\ DecoderWrappers = {} /\ filterWrappers = {"F"}
  /\ OutputRunners = {} /\ outputWrappers = {}
  /\ oMatchers = <<>>
  /\ decoderChannels = EmptyMap
  /\ allDecoders = <<>>
  /\ decodersWg = 0
  /\ DecodersByEncoding = EmptyMap
  /\ topHeaderMessageEncoding = 0
  /\ checkedOut = [c \in Consumers |-> NoRunner]
  /\ lookup = NoLookup

(***************************************************************************)
(* The state after NewPipelineConfig, a load of a configuration holding    *)
(* the one Filter section F with a message_matcher, and start-up: both     *)
(* pools are filled, filter runner 1 runs and its Matcher is in the router.*)
(***************************************************************************)
Init ==
  /\ inputRecycleChan = SeqOf(1, PoolSize)
  /\ injectRecycleChan = SeqOf(PoolSize + 1, 2 * PoolSize)
  /\ RefCount = [p \in Packs |-> 0]
  /\ MsgLoopCount = [p \in Packs |-> 0]
  /\ inputHeld = Nil
  /\ routerIn = <<>>
  /\ router = [pc |-> "select", evt |-> Nil, pack |-> Nil, dests |-> <<>>]
  /\ fMatchers = <<1>>
  /\ inChan = [r \in Runners |-> <<>>]
  /\ closed = [r \in Runners |-> FALSE]
  /\ rstate = [r \in Runners |-> IF r = 1 THEN "running" ELSE "new"]
  /\ cur = [r \in Runners |-> Nil]
  /\ out = [r \in Runners |-> Nil]
  /\ FilterRunners = [n \in {Name(1)} |-> 1]
  /\ filtersLock = Free
  /\ filtersWg = 1
  /\ Stopping = FALSE
  /\ pc = [p \in Callers |-> "idle"]
  /\ arg = [p \in Callers |-> NoArg]
  /\ ret = NoRet
  /\ panicked = "none"
  /\ Loaded

Alive == panicked = "none"

\* a filter goroutine inside AddFilterRunner / RemoveFilterRunner does nothing else
Busy(r) == r \in Callers /\ pc[r] # "idle"

(***************************************************************************)
(* Pack pools.                                                             *)
(***************************************************************************)
HomeIsInput(pack) == pack \in InputPacks

\* PipelinePack.Recycle: the decrement; the 1 -> 0 edge returns the Pack to
\* its home channel
Recycle(pack) ==
  IF RefCount[pack] = 1
  THEN /\ RefCount' = [RefCount EXCEPT ![pack] = 0]
       /\ MsgLoopCount' = [MsgLoopCount EXCEPT ![pack] = 0]
       /\ IF HomeIsInput(pack)
          THEN /\ inputRecycleChan' = Append(inputRecycleChan, pack)
               /\ UNCHANGED injectRecycleChan
          ELSE /\ injectRecycleChan' = Append(injectRecycleChan, pack)
               /\ UNCHANGED inputRecycleChan
  ELSE /\ RefCount' = [RefCount EXCEPT ![pack] = RefCount[pack] - 1]
       /\ UNCHANGED <<MsgLoopCount, inputRecycleChan, injectRecycleChan>>

\* An Input takes a Pack from the input pool
InputTake ==
  /\ UNCHANGED loadVars
  /\ Alive
  /\ inputHeld = Nil
  /\ inputRecycleChan # <<>>
  /\ inputHeld' = Head(inputRecycleChan)
  /\ inputRecycleChan' = Tail(inputRecycleChan)
  /\ RefCount' = [RefCount EXCEPT ![Head(inputRecycleChan)] = 1]
  /\ ret' = NoRet
  /\ UNCHANGED <<injectRecycleChan, MsgLoopCount, routerVars, filterVars,
                 configVars, callVars, panicked>>

\* ... and hands it to the router
InputSend ==
  /\ UNCHANGED loadVars
  /\ Alive
  /\ inputHeld # Nil
  /\ Len(routerIn) < ChanSize
  /\ routerIn' = Append(routerIn, inputHeld)
  /\ inputHeld' = Nil
  /\ ret' = NoRet
  /\ UNCHANGED <<poolVars, router, fMatchers, filterVars, configVars, callVars,
                 panicked>>

\* config.go:171  if msgLoopCount++; msgLoopCount > Globals().MaxMsgLoops
LoopCountExceeded(msgLoopCount) == Uint(msgLoopCount + 1) > MaxMsgLoops

\* PipelinePack(msgLoopCount) called by filter r, the nil return (line 172)
PipelinePackNil(r, msgLoopCount) ==
  /\ LoopCountExceeded(msgLoopCount)
  /\ Returns("PipelinePack", r, "", msgLoopCount, "nil")
  /\ UNCHANGED <<poolVars, inputHeld, routerVars, filterVars, configVars,
                 callVars, panicked>>

\* PipelinePackTake falling back on the input pool when the inject pool is empty
PipelinePackTake_AnyPool(r, msgLoopCount) ==
  /\ ~LoopCountExceeded(msgLoopCount)
  /\ injectRecycleChan \o inputRecycleChan # <<>>
  /\ LET fromInject == injectRecycleChan # <<>>
         pack == Head(injectRecycleChan \o inputRecycleChan) IN
       /\ injectRecycleChan' = IF fromInject THEN Tail(injectRecycleChan) ELSE <<>>
       /\ inputRecycleChan' =
            IF fromInject THEN inputRecycleChan ELSE Tail(inputRecycleChan)
       /\ RefCount' = [RefCount EXCEPT ![pack] = 1]
       /\ MsgLoopCount' = [MsgLoopCount EXCEPT ![pack] = Uint(msgLoopCount + 1)]
       /\ out' = [out EXCEPT ![r] = pack]
  /\ Returns("PipelinePack", r, "", msgLoopCount, "pack")
  /\ UNCHANGED <<inputHeld, routerVars, inChan, closed, rstate, cur, configVars,
                 callVars, panicked>>

\* PipelinePackTake without line 179, pack.RefCount = 1
PipelinePackTake_NoRefCount(r, msgLoopCount) ==
  /\ ~LoopCountExceeded(msgLoopCount)
  /\ injectRecycleChan # <<>>
  /\ LET pack == Head(injectRecycleChan) IN
       /\ injectRecycleChan' = Tail(injectRecycleChan)
       /\ MsgLoopCount' = [MsgLoopCount EXCEPT ![pack] = Uint(msgLoopCount + 1)]
       /\ out' = [out EXCEPT ![r] = pack]
  /\ Returns("PipelinePack", r, "", msgLoopCount, "pack")
  /\ UNCHANGED <<inputRecycleChan, RefCount, inputHeld, routerVars, inChan, closed,
                 rstate, cur, configVars, callVars, panicked>>

\* PipelinePack(msgLoopCount) called by filter r, the Pack return (lines
\* 174-181): the receive blocks while the inject pool is empty
PipelinePackTake(r, msgLoopCount) ==
  /\ ~LoopCountExceeded(msgLoopCount)
  /\ injectRecycleChan # <<>>
  /\ LET pack == Head(injectRecycleChan) IN
       /\ injectRecycleChan' = Tail(injectRecycleChan)
       /\ RefCount' = [RefCount EXCEPT ![pack] = 1]
       /\ MsgLoopCount' = [MsgLoopCount EXCEPT ![pack] = Uint(msgLoopCount + 1)]
       /\ out' = [out EXCEPT ![r] = pack]
  /\ Returns("PipelinePack", r, "", msgLoopCount, "pack")
  /\ UNCHANGED <<inputRecycleChan, inputHeld, routerVars, inChan, closed, rstate,
                 cur, configVars, callVars, panicked>>

\* A running filter calls PipelinePack with any loop count
PipelinePack(r, msgLoopCount) ==
  /\ UNCHANGED loadVars
  /\ Alive
  /\ rstate[r] = "running"
  /\ ~Busy(r)
  /\ out[r] = Nil
  /\ \/ PipelinePackNil(r, msgLoopCount)
     \/ PipelinePackTake(r, msgLoopCount)

(***************************************************************************)
(* Filter runners.                                                         *)
(***************************************************************************)
\* the filter injects the Pack it got from PipelinePack into the router
FilterInject(r) ==
  /\ UNCHANGED loadVars
  /\ Alive
  /\ out[r] # Nil
  /\ ~Busy(r)
  /\ Len(routerIn) < ChanSize
  /\ routerIn' = Append(routerIn, out[r])
  /\ out' = [out EXCEPT ![r] = Nil]
  /\ ret' = NoRet
  /\ UNCHANGED <<poolVars, inputHeld, router, fMatchers, inChan, closed, rstate,
                 cur, configVars, callVars, panicked>>

\* the filter receives the next Pack of its inbound channel
FilterRecv(r) ==
  /\ UNCHANGED loadVars
  /\ Alive
  /\ rstate[r] = "running"
  /\ ~Busy(r)
  /\ cur[r] = Nil
  /\ inChan[r] # <<>>
  /\ cur' = [cur EXCEPT ![r] = Head(inChan[r])]
  /\ inChan' = [inChan EXCEPT ![r] = Tail(inChan[r])]
  /\ ret' = NoRet
  /\ UNCHANGED <<poolVars, inputHeld, routerVars, closed, rstate, out,
                 configVars, callVars, panicked>>

\* the filter is done with the Pack it received
FilterDone(r) ==
  /\ UNCHANGED loadVars
  /\ Alive
  /\ ~Busy(r)
  /\ cur[r] # Nil
  /\ Recycle(cur[r])
  /\ cur' = [cur EXCEPT ![r] = Nil]
  /\ ret' = NoRet
  /\ UNCHANGED <<inputHeld, routerVars, inChan, closed, rstate, out, configVars,
                 callVars, panicked>>

\* the inbound channel is closed and drained: the runner exits
FilterExit(r) ==
  /\ UNCHANGED loadVars
  /\ Alive
  /\ rstate[r] = "running"
  /\ ~Busy(r)
  /\ closed[r] /\ inChan[r] = <<>> /\ cur[r] = Nil /\ out[r] = Nil
  /\ rstate' = [rstate EXCEPT ![r] = "exited"]
  /\ filtersWg' = filtersWg - 1
  /\ ret' = NoRet
  /\ UNCHANGED <<poolVars, inputHeld, routerVars, inChan, closed, cur, out,
                 FilterRunners, filtersLock, Stopping, callVars, panicked>>

(***************************************************************************)
(* The message router.                                                     *)
(***************************************************************************)
RouterAtSelect == [pc |-> "select", evt |-> Nil, pack |-> Nil, dests |-> <<>>]

\* a router that counts a destination only as it hands the Pack over
RouterRecvPack_NoCount(accepting) ==
  /\ UNCHANGED loadVars
  /\ Alive
  /\ router.pc = "select"
  /\ routerIn # <<>>
  /\ router' = [pc |-> "deliver", evt |-> Nil, pack |-> Head(routerIn),
                dests |-> Filtered(fMatchers, accepting)]
  /\ routerIn' = Tail(routerIn)
  /\ ret' = NoRet
  /\ UNCHANGED <<poolVars, inputHeld, fMatchers, filterVars, configVars,
                 callVars, panicked>>

\* the router receives a Pack: it raises RefCount by the number of accepting
\* matchers, then delivers to each of them in turn
RouterRecvPack(accepting) ==
  /\ UNCHANGED loadVars
  /\ Alive
  /\ router.pc = "select"
  /\ routerIn # <<>>
  /\ LET pack == Head(routerIn)
         dests == Filtered(fMatchers, accepting) IN
       /\ router' = [pc |-> "deliver", evt |-> Nil, pack |-> pack, dests |-> dests]
       /\ RefCount' = [RefCount EXCEPT ![pack] = RefCount[pack] + Len(dests)]
  /\ routerIn' = Tail(routerIn)
  /\ ret' = NoRet
  /\ UNCHANGED <<inputRecycleChan, injectRecycleChan, MsgLoopCount, inputHeld,
                 fMatchers, filterVars, configVars, callVars, panicked>>

\* the router sends the Pack to the next destination's inbound channel; a
\* send on a closed channel panics
RouterDeliver(r) ==
  /\ UNCHANGED loadVars
  /\ Alive
  /\ router.pc = "deliver"
  /\ router.dests # <<>>
  /\ r = Head(router.dests)
  /\ IF closed[r]
     THEN /\ panicked' = "send on closed channel"
          /\ UNCHANGED <<router, inChan>>
     ELSE /\ Len(inChan[r]) < ChanSize
          /\ inChan' = [inChan EXCEPT ![r] = Append(inChan[r], router.pack)]
          /\ router' = [router EXCEPT !.dests = Tail(router.dests)]
          /\ UNCHANGED panicked
  /\ ret' = NoRet
  /\ UNCHANGED <<poolVars, inputHeld, routerIn, fMatchers, closed, rstate, cur,
                 out, configVars, callVars>>

\* every destination has the Pack: the router drops its own reference
RouterRecycle ==
  /\ UNCHANGED loadVars
  /\ Alive
  /\ router.pc = "deliver"
  /\ router.dests = <<>>
  /\ Recycle(router.pack)
  /\ router' = RouterAtSelect
  /\ ret' = NoRet
  /\ UNCHANGED <<inputHeld, routerIn, fMatchers, filterVars, configVars,
                 callVars, panicked>>

\* a control event: the first occurrence of a Matcher adds it to the filter
\* matchers, the second occurrence removes it
ToggleMatcher(matchers, m) ==
  IF m \in SeqToSet(matchers) THEN Remove(matchers, m) ELSE Append(matchers, m)

RouterControl ==
  /\ UNCHANGED loadVars
  /\ Alive
  /\ router.pc = "ctl"
  /\ fMatchers' = ToggleMatcher(fMatchers, router.evt)
  /\ router' = RouterAtSelect
  /\ ret' = NoRet
  /\ UNCHANGED <<poolVars, inputHeld, routerIn, filterVars, configVars, callVars,
                 panicked>>

\* router.MrChan() <- matcher: the router takes the event at its select
MrChanReady == router.pc = "select"
MrChanSend(m) == router' = [pc |-> "ctl", evt |-> m, pack |-> Nil, dests |-> <<>>]

(***************************************************************************)
(* Dynamic Filter add / remove.                                            *)
(***************************************************************************)
\* a caller is a goroutine that is no filter, or a running filter
CanCall(p) ==
  /\ Alive
  /\ pc[p] = "idle"
  /\ p \in Runners => rstate[p] = "running"

\* fRunner.Start(self, &self.filtersWg): the outcomes
StartOutcomes == {"ok", "err"}

\* line 213: self.FilterRunners[fRunner.Name()] = fRunner
MapStore(runners, fRunner) ==
  [n \in DOMAIN runners \cup {Name(fRunner)} |->
     IF n = Name(fRunner) THEN fRunner ELSE runners[n]]

\* the FilterRunners map AddFilterRunner leaves when the start failed
\* (lines 213-218: the store of line 213 is not undone)
MapAfterFailedStart(runners, fRunner) == MapStore(runners, fRunner)

\* RemoveFilterRunner without the delete of line 237
MapDelete_Forgotten(runners, name) == runners

\* line 237: delete(self.FilterRunners, name)
MapDelete(runners, name) == [n \in DOMAIN runners \ {name} |-> runners[n]]

\* AddFilterRunner, lines 211-219: Lock, the map store, filtersWg.Add(1),
\* Start; on a start error filtersWg.Done(), the deferred Unlock and the
\* error return
AddFilterRunner(p, fRunner, started) ==
  /\ UNCHANGED loadVars
  /\ CanCall(p)
  /\ rstate[fRunner] = "new"
  /\ filtersLock = Free
  /\ IF started = "ok"
     THEN /\ FilterRunners' = MapStore(FilterRunners, fRunner)
          /\ filtersWg' = filtersWg + 1
          /\ rstate' = [rstate EXCEPT ![fRunner] = "running"]
          /\ filtersLock' = p
          /\ pc' = [pc EXCEPT ![p] = "add_send"]
          /\ arg' = [arg EXCEPT ![p] = [fRunner |-> fRunner, name |-> Name(fRunner)]]
          /\ ret' = NoRet
     ELSE /\ FilterRunners' = MapAfterFailedStart(FilterRunners, fRunner)
          /\ filtersWg' = (filtersWg + 1) - 1
          /\ rstate' = [rstate EXCEPT ![fRunner] = "failed"]
          /\ filtersLock' = Free
          /\ Returns("AddFilterRunner", p, Name(fRunner), fRunner, "error")
          /\ UNCHANGED <<pc, arg>>
  /\ UNCHANGED <<poolVars, inputHeld, routerVars, inChan, closed, cur, out,
                 Stopping, panicked>>

\* AddFilterRunner, lines 220-222: the send on MrChan, the deferred Unlock and
\* the nil return
AddFilterRunnerSend(p) ==
  /\ UNCHANGED loadVars
  /\ Alive
  /\ pc[p] = "add_send"
  /\ MrChanReady
  /\ MrChanSend(arg[p].fRunner)
  /\ filtersLock' = Free
  /\ pc' = [pc EXCEPT ![p] = "idle"]
  /\ arg' = [arg EXCEPT ![p] = NoArg]
  /\ Returns("AddFilterRunner", p, arg[p].name, arg[p].fRunner, "nil")
  /\ UNCHANGED <<poolVars, inputHeld, routerIn, fMatchers, filterVars,
                 FilterRunners, filtersWg, Stopping, panicked>>

\* lines 228-230: the test of Globals().Stopping on entry
RefusesWhenStopping(stopping) == stopping

\* RemoveFilterRunner, lines 228-230: the Stopping test
RemoveFilterRunner(p, name) ==
  /\ UNCHANGED loadVars
  /\ CanCall(p)
  /\ IF RefusesWhenStopping(Stopping)
     THEN /\ Returns("RemoveFilterRunner", p, name, Nil, "false")
          /\ UNCHANGED <<pc, arg>>
     ELSE /\ ret' = NoRet
          /\ pc' = [pc EXCEPT ![p] = "rm_lock"]
          /\ arg' = [arg EXCEPT ![p] = [fRunner |-> Nil, name |-> name]]
  /\ UNCHANGED <<poolVars, inputHeld, routerVars, filterVars, configVars,
                 panicked>>

\* line 234: fRunner, ok := self.FilterRunners[name]
Registered(runners, name) == name \in DOMAIN runners

\* RemoveFilterRunner, lines 232-234 and 240: Lock and the map lookup; a name
\* that is not registered returns false
RemoveFilterRunnerLock(p) ==
  /\ UNCHANGED loadVars
  /\ Alive
  /\ pc[p] = "rm_lock"
  /\ filtersLock = Free
  /\ IF Registered(FilterRunners, arg[p].name)
     THEN /\ filtersLock' = p
          /\ pc' = [pc EXCEPT ![p] = "rm_send"]
          /\ ret' = NoRet
          /\ UNCHANGED arg
     ELSE /\ filtersLock' = Free
          /\ pc' = [pc EXCEPT ![p] = "idle"]
          /\ arg' = [arg EXCEPT ![p] = NoArg]
          /\ Returns("RemoveFilterRunner", p, arg[p].name, Nil, "false")
  /\ UNCHANGED <<poolVars, inputHeld, routerVars, filterVars, FilterRunners,
                 filtersWg, Stopping, panicked>>

\* RemoveFilterRunner, line 235: the send of the runner's Matcher on MrChan
RemoveFilterRunnerSend(p) ==
  /\ UNCHANGED loadVars
  /\ Alive
  /\ pc[p] = "rm_send"
  /\ MrChanReady
  /\ MrChanSend(FilterRunners[arg[p].name])
  /\ pc' = [pc EXCEPT ![p] = "rm_close"]
  /\ ret' = NoRet
  /\ UNCHANGED <<poolVars, inputHeld, routerIn, fMatchers, filterVars,
                 configVars, arg, panicked>>

\* RemoveFilterRunner, lines 236-238: close of the inbound channel (a close of
\* a closed channel panics), the delete, the deferred Unlock, return true
RemoveFilterRunnerClose(p) ==
  /\ UNCHANGED loadVars
  /\ Alive
  /\ pc[p] = "rm_close"
  /\ LET fRunner == FilterRunners[arg[p].name] IN
       IF closed[fRunner]
       THEN /\ panicked' = "close of closed channel"
            /\ ret' = NoRet
            /\ UNCHANGED <<closed, FilterRunners, filtersLock, pc, arg>>
       ELSE /\ closed' = [closed EXCEPT ![fRunner] = TRUE]
            /\ FilterRunners' = MapDelete(FilterRunners, arg[p].name)
            /\ filtersLock' = Free
            /\ pc' = [pc EXCEPT ![p] = "idle"]
            /\ arg' = [arg EXCEPT ![p] = NoArg]
            /\ Returns("RemoveFilterRunner", p, arg[p].name, fRunner, "true")
            /\ UNCHANGED panicked
  /\ UNCHANGED <<poolVars, inputHeld, routerVars, inChan, rstate, cur, out,
                 filtersWg, Stopping>>

\* the shutdown path sets Globals().Stopping
SetStopping ==
  /\ UNCHANGED loadVars
  /\ Alive
  /\ ~Stopping
  /\ Stopping' = TRUE
  /\ ret' = NoRet
  /\ UNCHANGED <<poolVars, inputHeld, routerVars, filterVars, FilterRunners,
                 filtersLock, filtersWg, callVars, panicked>>

\* Inputs, filters and the router moving Packs
PackFlow ==
  \/ InputTake
  \/ InputSend
  \/ \E r \in Runners : FilterRecv(r)
  \/ \E r \in Runners : FilterDone(r)
  \/ \E accepting \in SUBSET Runners : RouterRecvPack(accepting)
  \/ \E r \in Runners : RouterDeliver(r)
  \/ RouterRecycle

\* Filters injecting messages
Injection ==
  \/ \E r \in Runners, k \in UintValues : PipelinePack(r, k)
  \/ \E r \in Runners : FilterInject(r)

\* Filters added and removed while the pipeline is live
Dynamic ==
  \/ \E r \in Runners : FilterExit(r)
  \/ RouterControl
  \/ \E p \in Callers, r \in Runners, s \in StartOutcomes : AddFilterRunner(p, r, s)
  \/ \E p \in Callers : AddFilterRunnerSend(p)
  \/ \E p \in Callers, n \in Names : RemoveFilterRunner(p, n)
  \/ \E p \in Callers : RemoveFilterRunnerLock(p)
  \/ \E p \in Callers : RemoveFilterRunnerSend(p)
  \/ \E p \in Callers : RemoveFilterRunnerClose(p)
  \/ SetStopping

\* Filter(name), lines 204-207, takes no lock. The read of the map takes
\* time: it begins on the map as it is
FilterLookupBegin(name) ==
  /\ Alive
  /\ lookup = NoLookup
  /\ lookup' = [name |-> name, seen |-> FilterRunners]
  /\ ret' = NoRet
  /\ UNCHANGED <<poolVars, inputHeld, routerVars, filterVars, configVars,
                 callVars, panicked, configFile, todo, phase, errcnt, loadErr,
                 logMsgs, InputRunners, inputWrappers, DecoderWrappers,
                 filterWrappers, OutputRunners, outputWrappers, oMatchers,
                 decoderChannels, allDecoders, decodersWg, DecodersByEncoding,
                 topHeaderMessageEncoding, checkedOut>>

\* what a read of runners[name] returns
MapRead(runners, name) ==
  IF name \in DOMAIN runners THEN [val |-> "true", fRunner |-> runners[name]]
  ELSE [val |-> "false", fRunner |-> Nil]

\* what the read can give: the map's answer when nothing wrote the map during
\* the read; after a concurrent write (a data race on a Go map) the answer of
\* the map before or after the write, or the runtime's fatal error
LookupOutcomes ==
  IF lookup.seen = FilterRunners THEN {"now"} ELSE {"before", "now", "fatal"}

\* Filter(name): the read ends and the call returns
FilterLookupEnd(outcome) ==
  /\ Alive
  /\ lookup # NoLookup
  /\ outcome \in LookupOutcomes
  /\ lookup' = NoLookup
  /\ IF outcome = "fatal"
     THEN /\ panicked' = "concurrent map read and map write"
          /\ ret' = NoRet
     ELSE /\ LET got == MapRead(IF outcome = "now" THEN FilterRunners
                                ELSE lookup.seen, lookup.name)
             IN Returns("Filter", Free, lookup.name, got.fRunner, got.val)
          /\ UNCHANGED panicked
  /\ UNCHANGED <<poolVars, inputHeld, routerVars, filterVars, configVars,
                 callVars, configFile, todo, phase, errcnt, loadErr,
                 logMsgs, InputRunners, inputWrappers, DecoderWrappers,
                 filterWrappers, OutputRunners, outputWrappers, oMatchers,
                 decoderChannels, allDecoders, decodersWg, DecodersByEncoding,
                 topHeaderMessageEncoding, checkedOut>>

\* plugins looking filters up by name
Lookups ==
  \/ \E n \in Names : FilterLookupBegin(n)
  \/ \E o \in {"before", "now", "fatal"} : FilterLookupEnd(o)

NextFilters == PackFlow \/ Dynamic
NextLookups == PackFlow \/ Dynamic \/ Lookups
NextPacks == PackFlow \/ Injection
Next == PackFlow \/ Injection \/ Dynamic

(***************************************************************************)
(* The configuration loader.                                               *)
(***************************************************************************)
\* lines 581-629 and RegisterPlugin: the plugin registry. Custom stands for a
\* plugin an embedding program registered under a name with no category suffix.
AvailablePlugins ==
  {"UdpInput", "JsonDecoder", "ProtobufDecoder", "CounterFilter", "LogOutput",
   "Custom"}

\* line 37 and 447-453: PluginTypeRegex, ^.*(Decoder|Filter|Input|Output)$,
\* on the plugin type names of the model; "" is no match
PluginCategory(pluginType) ==
  CASE pluginType \in {"JsonDecoder", "ProtobufDecoder"} -> "Decoder"
    [] pluginType = "CounterFilter" -> "Filter"
    [] pluginType = "UdpInput" -> "Input"
    [] pluginType = "LogOutput" -> "Output"
    [] OTHER -> ""

\* message.Header_MessageEncoding_value, with two more names whose ids sit at
\* and above the cap
Header_MessageEncoding_value ==
  [e \in {"PROTOCOL_BUFFER", "JSON", "ENC_MAX", "ENC_OVER"} |->
     CASE e = "PROTOCOL_BUFFER" -> 0
       [] e = "JSON" -> 1
       [] e = "ENC_MAX" -> MAX_HEADER_MESSAGEENCODING
       [] e = "ENC_OVER" -> MAX_HEADER_MESSAGEENCODING + 1]
EncodingNames == DOMAIN Header_MessageEncoding_value \cup {"BOGUS"}

\* A section of the configuration: the PluginGlobals keys loadSection reads
\* (lines 261-269), whether the section decodes into PluginGlobals, and how
\* the plugin code behaves: factory (the plugin factory), config (ConfigStruct
\* and the decode into it), init (Init of the first instance), minted
\* (CreateWithError of each further instance of a decoder pool)
NormalSection(name, typ) ==
  [name |-> name, typ |-> typ, encoding |-> "", poolSize |-> 0, matcher |-> "",
   decodeOK |-> TRUE, factory |-> "ok", config |-> "ok", init |-> "ok",
   minted |-> "ok"]

Misbehaving(b) ==
  {[b EXCEPT !.decodeOK = FALSE], [b EXCEPT !.factory = "panic"]}
  \cup {[b EXCEPT !.config = c] : c \in {"error", "panic"}}
  \cup {[b EXCEPT !.init = c] : c \in {"error", "panic"}}

DecoderSections(name, typ) ==
  LET b == NormalSection(name, typ) IN
  {b} \cup Misbehaving(b)
  \cup {[b EXCEPT !.encoding = e] : e \in EncodingNames}
  \cup {[b EXCEPT !.poolSize = n] : n \in {1, MaxPoolSize}}
  \cup {[b EXCEPT !.minted = c] : c \in {"error", "panic"}}

MatcherSections(name, typ) ==
  LET b == NormalSection(name, typ) IN
  {b} \cup Misbehaving(b) \cup {[b EXCEPT !.matcher = m] : m \in {"TRUE", "bad"}}

Sections ==
  DecoderSections("A", "JsonDecoder")
  \cup DecoderSections("JsonDecoder", "")
  \cup DecoderSections("ProtobufDecoder", "")
  \cup MatcherSections("F", "CounterFilter")
  \cup MatcherSections("O", "LogOutput")
  \cup {NormalSection("I", "UdpInput")} \cup Misbehaving(NormalSection("I", "UdpInput"))
  \cup {NormalSection("Bad", "NoSuchThing"), NormalSection("C", "Custom")}

\* the configuration files of at most n sections, under distinct names
RECURSIVE FilesUpTo(_)
FilesUpTo(n) ==
  IF n = 0 THEN {{}}
  ELSE LET smaller == FilesUpTo(n - 1) IN
    smaller \cup
    {c \cup {s} : <<c, s>> \in
       {x \in smaller \X Sections : \A a \in x[1] : a.name # x[2].name}}

ConfigFiles == FilesUpTo(MaxSections)

\* lines 271-278: defaultDecoderTOML
DefaultSection(name) ==
  [NormalSection(name, "") EXCEPT
     !.encoding = IF name = "JsonDecoder" THEN "JSON" ELSE "PROTOCOL_BUFFER"]

\* a map with one more entry
MapPut(map, key, value) ==
  [k \in DOMAIN map \cup {key} |-> IF k = key THEN value ELSE map[k]]

\* regDecoderForHeader with >= for the > of line 354
regDecoderForHeader_CapExcluded(byEncoding, top, decoderName, encodingName) ==
  IF encodingName \notin DOMAIN Header_MessageEncoding_value
  THEN [err |-> "No Header_MessageEncoding named", byEncoding |-> byEncoding,
        top |-> top]
  ELSE LET encoding == Header_MessageEncoding_value[encodingName] IN
    IF encoding >= MAX_HEADER_MESSAGEENCODING
    THEN [err |-> "value higher than max", byEncoding |-> byEncoding, top |-> top]
    ELSE IF decoderName \notin AvailablePlugins
    THEN [err |-> "No decoder registered as a plugin", byEncoding |-> byEncoding,
          top |-> top]
    ELSE [err |-> "",
          byEncoding |-> MapPut(byEncoding, encoding, decoderName),
          top |-> IF encoding > top THEN encoding ELSE top]

\* regDecoderForHeader with lines 364-367 ahead of the test of line 360
regDecoderForHeader_StoreFirst(byEncoding, top, decoderName, encodingName) ==
  IF encodingName \notin DOMAIN Header_MessageEncoding_value
  THEN [err |-> "No Header_MessageEncoding named", byEncoding |-> byEncoding,
        top |-> top]
  ELSE LET encoding == Header_MessageEncoding_value[encodingName] IN
    IF encoding > MAX_HEADER_MESSAGEENCODING
    THEN [err |-> "value higher than max", byEncoding |-> byEncoding, top |-> top]
    ELSE [err |-> IF decoderName \notin AvailablePlugins
                  THEN "No decoder registered as a plugin" ELSE "",
          byEncoding |-> MapPut(byEncoding, encoding, decoderName),
          top |-> IF encoding > top THEN encoding ELSE top]

\* lines 345-369: regDecoderForHeader, on the pair (DecodersByEncoding,
\* topHeaderMessageEncoding)
regDecoderForHeader(byEncoding, top, decoderName, encodingName) ==
  IF encodingName \notin DOMAIN Header_MessageEncoding_value
  THEN [err |-> "No Header_MessageEncoding named", byEncoding |-> byEncoding,
        top |-> top]
  ELSE LET encoding == Header_MessageEncoding_value[encodingName] IN
    IF encoding > MAX_HEADER_MESSAGEENCODING
    THEN [err |-> "value higher than max", byEncoding |-> byEncoding, top |-> top]
    ELSE IF decoderName \notin AvailablePlugins
    THEN [err |-> "No decoder registered as a plugin", byEncoding |-> byEncoding,
          top |-> top]
    ELSE [err |-> "",
          byEncoding |-> MapPut(byEncoding, encoding, decoderName),
          top |-> IF encoding > top THEN encoding ELSE top]

\* lines 405-409: the plugin type of a section
PluginType(s) == IF s.typ = "" THEN s.name ELSE s.typ

\* lines 470-472: the effective pool size
EffectivePoolSize(s) == IF s.poolSize = 0 THEN DecoderPoolSize ELSE s.poolSize

\* lines 475-481 and 484-490: the DecoderRunners of a pool, "<section>-<i>";
\* ok tells whether the wrapped decoder's Init returned without error
DRunner(s, i) ==
  [name |-> <<s.name, i>>, ok |-> IF i = 0 THEN TRUE ELSE s.minted = "ok"]
RECURSIVE DRunners(_, _, _)
DRunners(s, from, to) ==
  IF from >= to THEN <<>> ELSE <<DRunner(s, from)>> \o DRunners(s, from + 1, to)

\* lines 289-308 and 488: wrapper.Create().(Decoder) of a further instance.
\* CreateWithError recovers a panic of the factory or of Init and returns a
\* nil plugin, Create drops the error, and the type assertion on nil panics
CreatePanics(s) == s.minted = "panic"

\* the error loadSection logs for a section, "" when it installs the plugin,
\* in the order of lines 399-466 and 511-519
SectionError(s, byEncoding, top) ==
  IF ~s.decodeOK THEN "Unable to decode config for plugin: %s"
  ELSE IF PluginType(s) \notin AvailablePlugins THEN "No such plugin: %s"
  ELSE IF s.config # "ok" THEN "Can't load config for %s"
  ELSE IF s.init # "ok" THEN "Initialization failed for '%s'"
  ELSE IF PluginCategory(PluginType(s)) = ""
    THEN "Type doesn't contain valid plugin name: %s"
  ELSE IF /\ PluginCategory(PluginType(s)) = "Decoder"
          /\ s.encoding # ""
          /\ regDecoderForHeader(byEncoding, top, PluginType(s), s.encoding).err # ""
    THEN "Can't register decoder '%s' for encoding"
  ELSE IF /\ PluginCategory(PluginType(s)) \in {"Filter", "Output"}
          /\ s.matcher = "bad"
    THEN "Can't create message matcher for '%s'"
  ELSE ""

\* line 418: the factory call of the first instance is outside any recover
FactoryPanics(s) ==
  /\ s.decodeOK
  /\ PluginType(s) \in AvailablePlugins
  /\ s.factory = "panic"

\* lines 372-375 and the errcnt++ beside each call: log and count one error
LogError(msg, name) ==
  /\ logMsgs' = Append(logMsgs, <<msg, name>>)
  /\ errcnt' = errcnt + 1

\* lines 483-491: the channel of a pool, made with capacity p and sent the p
\* DecoderRunners
DecoderChan_Short(s) ==
  [cap |-> EffectivePoolSize(s),
   q |-> DRunners(s, 0, EffectivePoolSize(s) - 1)]

DecoderChan(s) ==
  [cap |-> EffectivePoolSize(s), q |-> DRunners(s, 0, EffectivePoolSize(s))]

\* lines 457-493: the Decoder branch
InstallDecoder(s) ==
  LET reg == IF s.encoding = ""
             THEN [err |-> "", byEncoding |-> DecodersByEncoding,
                   top |-> topHeaderMessageEncoding]
             ELSE regDecoderForHeader(DecodersByEncoding, topHeaderMessageEncoding,
                                      PluginType(s), s.encoding)
      p == EffectivePoolSize(s)
      \* the runners started before a Create panics, all p of them otherwise
      made == IF p > 1 /\ CreatePanics(s) THEN 1 ELSE p
  IN
  /\ DecodersByEncoding' = reg.byEncoding
  /\ topHeaderMessageEncoding' = reg.top
  /\ DecoderWrappers' = DecoderWrappers \cup {s.name}
  /\ decodersWg' = decodersWg + made
  /\ allDecoders' = allDecoders \o DRunners(s, 0, made)
  /\ IF made < p
     THEN /\ panicked' = "interface conversion: interface is nil, not Decoder"
          /\ UNCHANGED decoderChannels
     ELSE /\ decoderChannels' =
               MapPut(decoderChannels, s.name, DecoderChan(s))
          /\ UNCHANGED panicked
  /\ UNCHANGED <<InputRunners, inputWrappers, FilterRunners, filterWrappers,
                 OutputRunners, outputWrappers, fMatchers, oMatchers>>

\* lines 496-501: the Input branch
InstallInput(s) ==
  /\ InputRunners' = InputRunners \cup {s.name}
  /\ inputWrappers' = inputWrappers \cup {s.name}
  /\ UNCHANGED <<DecoderWrappers, decoderChannels, allDecoders, decodersWg,
                 DecodersByEncoding, topHeaderMessageEncoding, FilterRunners,
                 filterWrappers, OutputRunners, outputWrappers, fMatchers,
                 oMatchers, panicked>>

\* lines 504-536: the Filter and Output branches; the runner and its Matcher
\* are named by the section
InstallFilterOrOutput(s) ==
  /\ IF PluginCategory(PluginType(s)) = "Filter"
     THEN /\ fMatchers' = IF s.matcher # "" THEN Append(fMatchers, s.name)
                          ELSE fMatchers
          /\ FilterRunners' = MapPut(FilterRunners, s.name, s.name)
          /\ filterWrappers' = filterWrappers \cup {s.name}
          /\ UNCHANGED <<oMatchers, OutputRunners, outputWrappers>>
     ELSE /\ oMatchers' = IF s.matcher # "" THEN Append(oMatchers, s.name)
                          ELSE oMatchers
          /\ OutputRunners' = OutputRunners \cup {s.name}
          /\ outputWrappers' = outputWrappers \cup {s.name}
          /\ UNCHANGED <<fMatchers, FilterRunners, filterWrappers>>
  /\ UNCHANGED <<InputRunners, inputWrappers, DecoderWrappers, decoderChannels,
                 allDecoders, decodersWg, DecodersByEncoding,
                 topHeaderMessageEncoding, panicked>>

installVars == <<InputRunners, inputWrappers, DecoderWrappers, filterWrappers,
                 OutputRunners, outputWrappers, FilterRunners, fMatchers, oMatchers,
                 decoderChannels, allDecoders, decodersWg, DecodersByEncoding,
                 topHeaderMessageEncoding>>

\* loadSection with the wrapper store of line 468 ahead of the error returns
loadSection_WrapperFirst(s) ==
  IF FactoryPanics(s)
  THEN /\ panicked' = "panic in plugin factory"
       /\ UNCHANGED <<logMsgs, errcnt, installVars>>
  ELSE LET msg == SectionError(s, DecodersByEncoding, topHeaderMessageEncoding) IN
    IF msg # ""
    THEN /\ LogError(msg, s.name)
         /\ DecoderWrappers' = DecoderWrappers \cup {s.name}
         /\ UNCHANGED <<InputRunners, inputWrappers, filterWrappers, OutputRunners,
                        outputWrappers, FilterRunners, fMatchers, oMatchers,
                        decoderChannels, allDecoders, decodersWg,
                        DecodersByEncoding, topHeaderMessageEncoding, panicked>>
    ELSE /\ UNCHANGED <<logMsgs, errcnt>>
         /\ CASE PluginCategory(PluginType(s)) = "Decoder" -> InstallDecoder(s)
              [] PluginCategory(PluginType(s)) = "Input" -> InstallInput(s)
              [] OTHER -> InstallFilterOrOutput(s)

\* lines 382-539: loadSection
loadSection(s) ==
  IF FactoryPanics(s)
  THEN /\ panicked' = "panic in plugin factory"
       /\ UNCHANGED <<logMsgs, errcnt, installVars>>
  ELSE LET msg == SectionError(s, DecodersByEncoding, topHeaderMessageEncoding) IN
    IF msg # ""
    THEN /\ LogError(msg, s.name)
         /\ UNCHANGED <<installVars, panicked>>
    ELSE /\ UNCHANGED <<logMsgs, errcnt>>
         /\ CASE PluginCategory(PluginType(s)) = "Decoder" -> InstallDecoder(s)
              [] PluginCategory(PluginType(s)) = "Input" -> InstallInput(s)
              [] OTHER -> InstallFilterOrOutput(s)

\* the state after NewPipelineConfig (lines 139-165), with a decoded file
LoadInit ==
  /\ configFile \in ConfigFiles
  /\ todo = configFile
  /\ phase = "decode"
  /\ errcnt = 0
  /\ loadErr = ""
  /\ logMsgs = <<>>
  /\ InputRunners = {} /\ inputWrappers = {}
  /\ DecoderWrappers = {} /\ filterWrappers = {}
  /\ OutputRunners = {} /\ outputWrappers = {}
  /\ FilterRunners = EmptyMap
  /\ fMatchers = <<>> /\ oMatchers = <<>>
  /\ decoderChannels = EmptyMap
  /\ allDecoders = <<>>
  /\ decodersWg = 0
  /\ DecodersByEncoding = EmptyMap
  /\ topHeaderMessageEncoding = 0
  /\ checkedOut = [c \in Consumers |-> NoRunner]
  /\ lookup = NoLookup
  /\ panicked = "none"
  /\ inputRecycleChan = <<>> /\ injectRecycleChan = <<>>
  /\ RefCount = [p \in Packs |-> 0]
  /\ MsgLoopCount = [p \in Packs |-> 0]
  /\ inputHeld = Nil
  /\ routerIn = <<>>
  /\ router = RouterAtSelect
  /\ inChan = [r \in Runners |-> <<>>]
  /\ closed = [r \in Runners |-> FALSE]
  /\ rstate = [r \in Runners |-> "new"]
  /\ cur = [r \in Runners |-> Nil]
  /\ out = [r \in Runners |-> Nil]
  /\ filtersLock = Free
  /\ filtersWg = 0
  /\ Stopping = FALSE
  /\ pc = [p \in Callers |-> "idle"]
  /\ arg = [p \in Callers |-> NoArg]
  /\ ret = NoRet

\* line 549: toml.DecodeFile reads the file into configFile
LoadDecodeFile ==
  /\ Alive
  /\ phase = "decode"
  /\ phase' = "sections"
  /\ UNCHANGED <<configFile, todo, errcnt, loadErr, logMsgs, installVars, panicked,
                 runVars, checkedOut, lookup>>

\* lines 549-551: a file that does not decode yields no section and ends the
\* load at once
LoadDecodeError ==
  /\ Alive
  /\ phase = "decode"
  /\ configFile = {}
  /\ loadErr' = "Error decoding config file"
  /\ phase' = "done"
  /\ UNCHANGED <<configFile, todo, errcnt, logMsgs, installVars, panicked, runVars, checkedOut, lookup>>

\* lines 555-558: one turn of the range loop, in the map's iteration order
LoadUserSection(s) ==
  /\ Alive
  /\ phase = "sections"
  /\ s \in todo
  /\ loadSection(s)
  /\ todo' = todo \ {s}
  /\ UNCHANGED <<configFile, phase, loadErr, runVars, checkedOut, lookup>>

\* lines 565-568 without the test of line 565
LoadDefaultJson_Always ==
  /\ Alive
  /\ phase = "sections"
  /\ todo = {}
  /\ loadSection(DefaultSection("JsonDecoder"))
  /\ phase' = "protobuf"
  /\ UNCHANGED <<configFile, todo, loadErr, runVars, checkedOut, lookup>>

\* lines 565-568: the default JsonDecoder section
LoadDefaultJson ==
  /\ Alive
  /\ phase = "sections"
  /\ todo = {}
  /\ IF "JsonDecoder" \notin DecoderWrappers
     THEN loadSection(DefaultSection("JsonDecoder"))
     ELSE UNCHANGED <<logMsgs, errcnt, installVars, panicked>>
  /\ phase' = "protobuf"
  /\ UNCHANGED <<configFile, todo, loadErr, runVars, checkedOut, lookup>>

\* lines 569-572: the default ProtobufDecoder section
LoadDefaultProtobuf ==
  /\ Alive
  /\ phase = "protobuf"
  /\ IF "ProtobufDecoder" \notin DecoderWrappers
     THEN loadSection(DefaultSection("ProtobufDecoder"))
     ELSE UNCHANGED <<logMsgs, errcnt, installVars, panicked>>
  /\ phase' = "gate"
  /\ UNCHANGED <<configFile, todo, loadErr, runVars, checkedOut, lookup>>

\* lines 574-578: the final gate; the error is "<n> errors loading plugins"
LoadReturn ==
  /\ Alive
  /\ phase = "gate"
  /\ loadErr' = IF errcnt # 0 THEN <<errcnt, "errors loading plugins">> ELSE "nil"
  /\ phase' = "done"
  /\ UNCHANGED <<configFile, todo, errcnt, logMsgs, installVars, panicked, runVars, checkedOut, lookup>>

LoadNext ==
  \/ LoadDecodeFile
  \/ LoadDecodeError
  \/ \E s \in Sections : LoadUserSection(s)
  \/ LoadDefaultJson
  \/ LoadDefaultProtobuf
  \/ LoadReturn

\* LoadFromConfigFile on every configuration file of the model
SpecLoad == LoadInit /\ [][LoadNext]_vars

(***************************************************************************)
(* regDecoderForHeader called on its own, with any decoder name and any     *)
(* encoding name, against the package's DecodersByEncoding and             *)
(* topHeaderMessageEncoding.                                               *)
(***************************************************************************)
\* the names a caller passes as decoderName
DecoderNames == AvailablePlugins \cup {"Unregistered"}

\* the id of an encoding name, Free when there is none
EncodingId(encodingName) ==
  IF encodingName \in DOMAIN Header_MessageEncoding_value
  THEN Header_MessageEncoding_value[encodingName] ELSE Free

RegisterDecoder(decoderName, encodingName) ==
  LET reg == regDecoderForHeader(DecodersByEncoding, topHeaderMessageEncoding,
                                 decoderName, encodingName) IN
  /\ Alive
  /\ DecodersByEncoding' = reg.byEncoding
  /\ topHeaderMessageEncoding' = reg.top
  /\ Returns("regDecoderForHeader", Free, decoderName, EncodingId(encodingName),
             reg.err)
  /\ UNCHANGED <<poolVars, inputHeld, routerVars, filterVars, configVars,
                 callVars, panicked, configFile, todo, phase, errcnt, loadErr,
                 logMsgs, InputRunners, inputWrappers, DecoderWrappers,
                 filterWrappers, OutputRunners, outputWrappers, oMatchers,
                 decoderChannels, allDecoders, decodersWg, checkedOut,
                 lookup>>

RegInit == LoadInit /\ configFile = {}

RegNext ==
  \E decoderName \in DecoderNames, encodingName \in EncodingNames :
    RegisterDecoder(decoderName, encodingName)

SpecReg == RegInit /\ [][RegNext]_vars

(***************************************************************************)
(* Consumers of the decoder pools (DecoderSet, lines 196-200): a consumer  *)
(* receives a DecoderRunner from a decoder channel, uses it, and sends the *)
(* same runner back on the channel it came from.                           *)
(***************************************************************************)
\* dRunner := <-decoderChannels[name]: blocks while the channel is empty
DecoderTake(c, name) ==
  /\ Alive
  /\ phase = "done"
  /\ checkedOut[c] = NoRunner
  /\ name \in DOMAIN decoderChannels
  /\ decoderChannels[name].q # <<>>
  /\ checkedOut' = [checkedOut EXCEPT ![c] = Head(decoderChannels[name].q)]
  /\ decoderChannels' =
       [decoderChannels EXCEPT ![name].q = Tail(decoderChannels[name].q)]
  /\ UNCHANGED <<configFile, todo, phase, errcnt, loadErr, logMsgs, InputRunners,
                 inputWrappers, DecoderWrappers, filterWrappers, OutputRunners,
                 outputWrappers, FilterRunners, fMatchers, oMatchers, allDecoders,
                 decodersWg, DecodersByEncoding, topHeaderMessageEncoding,
                 panicked, runVars, lookup>>

\* decoderChannels[name] <- dRunner: blocks while the channel is full
DecoderReturn(c) ==
  /\ Alive
  /\ phase = "done"
  /\ checkedOut[c] # NoRunner
  /\ LET name == checkedOut[c].name[1] IN
     /\ Len(decoderChannels[name].q) < decoderChannels[name].cap
     /\ decoderChannels' =
          [decoderChannels EXCEPT ![name].q = Append(decoderChannels[name].q,
                                                    checkedOut[c])]
  /\ checkedOut' = [checkedOut EXCEPT ![c] = NoRunner]
  /\ UNCHANGED <<configFile, todo, phase, errcnt, loadErr, logMsgs, InputRunners,
                 inputWrappers, DecoderWrappers, filterWrappers, OutputRunners,
                 outputWrappers, FilterRunners, fMatchers, oMatchers, allDecoders,
                 decodersWg, DecodersByEncoding, topHeaderMessageEncoding,
                 panicked, runVars, lookup>>

DecoderUse ==
  \/ \E c \in Consumers, name \in {s.name : s \in Sections} : DecoderTake(c, name)
  \/ \E c \in Consumers : DecoderReturn(c)

NextDecoders == LoadNext \/ DecoderUse

\* a load, then consumers working with the decoder pools it made
SpecDecoders == LoadInit /\ [][NextDecoders]_vars

\* the pipeline with dynamic filters, no filter injecting
Spec == Init /\ [][NextFilters]_vars
\* the pipeline with its loaded filters, filters injecting
SpecPacks == Init /\ [][NextPacks]_vars
\* everything at once
SpecAll == Init /\ [][Next]_vars
\* the steps of the router goroutine
RouterSteps ==
  \/ \E accepting \in SUBSET Runners : RouterRecvPack(accepting)
  \/ \E r \in Runners : RouterDeliver(r)
  \/ RouterRecycle
  \/ RouterControl

\* the steps of the goroutine of filter runner r on its inbound channel
RunnerSteps(r) == FilterRecv(r) \/ FilterDone(r) \/ FilterExit(r)

\* the steps that take a caller p inside AddFilterRunner or
\* RemoveFilterRunner to its return
CallSteps(p) ==
  \/ AddFilterRunnerSend(p)
  \/ RemoveFilterRunnerLock(p)
  \/ RemoveFilterRunnerSend(p)
  \/ RemoveFilterRunnerClose(p)

\* fair scheduling: the router and every runner take a step that stays
\* possible; a caller waiting for filtersLock or for the router's select gets
\* its turn when the turn keeps coming back
Fairness ==
  /\ WF_vars(RouterSteps)
  /\ \A r \in Runners : WF_vars(RunnerSteps(r))
  /\ \A p \in Callers : SF_vars(CallSteps(p))

\* the whole pipeline under fair scheduling
SpecFair == Init /\ [][Next]_vars /\ Fairness

\* the pipeline with dynamic filters and plugins calling Filter(name)
SpecLookups == Init /\ [][NextLookups]_vars

(***************************************************************************)
(* Properties.                                                             *)
(***************************************************************************)
\* how many times a Pack sits in the recycle channels
Count(ch, pack) == Cardinality({i \in 1..Len(ch) : ch[i] = pack})
Resident(pack) == Count(inputRecycleChan, pack) + Count(injectRecycleChan, pack)

\* C1: PipelinePack(k) returns nothing if and only if k+1 > MaxMsgLoops, for
\* every unsigned k; otherwise it returns a Pack of the inject pool with
\* RefCount = 1 and MsgLoopCount = k+1.
C1_LoopLimit ==
  ret.op = "PipelinePack" =>
    /\ (ret.val = "nil") <=> (ret.num + 1 > MaxMsgLoops)
    /\ ret.val = "pack" =>
         /\ out[ret.proc] \in InjectPacks
         /\ RefCount[out[ret.proc]] = 1
         /\ MsgLoopCount[out[ret.proc]] = ret.num + 1

\* C2: once RemoveFilterRunner has closed a filter's inbound channel, the
\* router sends no Pack on it (a send on a closed channel ends the process).
C2_NoSendAfterRemove ==
  /\ panicked # "send on closed channel"
  /\ \A r \in Runners :
       (closed[r] /\ router.pc = "deliver") => r \notin SeqToSet(router.dests)

\* C3: an AddFilterRunner whose runner fails to start returns the error and
\* leaves filtersWg, the FilterRunners map and the router control channel as
\* they were before the call, with filtersLock released.
C3_FailedAddLeavesNoState ==
  [][(ret'.op = "AddFilterRunner" /\ ret'.val = "error") =>
       /\ filtersWg' = filtersWg
       /\ FilterRunners' = FilterRunners
       /\ router' = router
       /\ filtersLock' = Free]_vars

\* C4: RemoveFilterRunner(F) for a registered F sends F's Matcher once, closes
\* the runner's open inbound channel, deletes F and returns true; a call for
\* a name that is not registered returns false and changes nothing; the
\* router turns a matcher list holding only F's Matcher into the empty list.
C4_RemoveRegistered ==
  [][/\ \A p \in Callers :
          /\ (pc[p] = "rm_lock" /\ pc'[p] # "rm_lock") =>
               IF arg[p].name \in DOMAIN FilterRunners
               THEN pc'[p] = "rm_send" /\ ret'.op = "none" /\ filtersLock' = p
               ELSE ret'.val = "false" /\ ret'.name = arg[p].name /\ ret'.proc = p
          /\ (pc[p] = "rm_send" /\ pc'[p] # "rm_send") =>
               /\ pc'[p] = "rm_close"
               /\ router'.pc = "ctl"
               /\ router'.evt = FilterRunners[arg[p].name]
               /\ router.pc = "select"
          /\ (pc[p] = "rm_close" /\ pc'[p] # "rm_close") =>
               /\ ret'.op = "RemoveFilterRunner" /\ ret'.val = "true"
               /\ ret'.name = arg[p].name /\ ret'.proc = p
               /\ router' = router
     /\ (ret'.op = "RemoveFilterRunner" /\ ret'.val = "true") =>
          /\ ret'.name \in DOMAIN FilterRunners
          /\ ret'.num = FilterRunners[ret'.name]
          /\ ~closed[ret'.num]
          /\ closed' = [closed EXCEPT ![ret'.num] = TRUE]
          /\ DOMAIN FilterRunners' = DOMAIN FilterRunners \ {ret'.name}
          /\ \A n \in DOMAIN FilterRunners' : FilterRunners'[n] = FilterRunners[n]
          /\ filtersLock = ret'.proc /\ filtersLock' = Free
     /\ (ret'.op = "RemoveFilterRunner" /\ ret'.val = "false") =>
          /\ Stopping \/ ret'.name \notin DOMAIN FilterRunners
          /\ UNCHANGED <<routerVars, filterVars, FilterRunners, filtersWg>>
          /\ filtersLock' = filtersLock
     /\ (router.pc = "ctl" /\ router'.pc # "ctl" /\ fMatchers = <<router.evt>>) =>
          fMatchers' = <<>>]_vars

\* a remove of the loaded filter F has returned true, the router has emptied
\* its matcher list, and a further remove of F has just returned false
C4_Witness ==
  /\ ret.op = "RemoveFilterRunner" /\ ret.val = "false" /\ ret.name = "F"
  /\ ~Stopping
  /\ closed[1]
  /\ fMatchers = <<>>
  /\ "F" \notin DOMAIN FilterRunners
  /\ rstate = [r \in Runners |-> IF r = 1 THEN "exited" ELSE "new"]

\* C5: while Stopping is set RemoveFilterRunner sends no remove event, closes
\* no inbound channel, deletes nothing from FilterRunners and never returns
\* true, also when Stopping is set while the call is in progress.
C5_RefusesWhileStopping ==
  [][Stopping =>
       /\ ~(ret'.op = "RemoveFilterRunner" /\ ret'.val = "true")
       /\ \A p \in Callers : pc[p] = "rm_send" => pc'[p] = "rm_send"
       /\ closed' = closed
       /\ DOMAIN FilterRunners \subseteq DOMAIN FilterRunners']_vars

\* C6: a PipelinePack call leaves the input recycle channel as it was; the
\* Pack it returns is the head of a non-empty inject recycle channel.
C6_OnlyInjectPool ==
  [][ret'.op = "PipelinePack" =>
       /\ inputRecycleChan' = inputRecycleChan
       /\ ret'.val = "nil" => injectRecycleChan' = injectRecycleChan
       /\ ret'.val = "pack" =>
            /\ injectRecycleChan # <<>>
            /\ out'[ret'.proc] = Head(injectRecycleChan)
            /\ injectRecycleChan' = Tail(injectRecycleChan)]_vars

\* PipelinePack has just emptied the inject pool while an input Pack is idle
C6_Witness ==
  /\ ret.op = "PipelinePack" /\ ret.val = "pack"
  /\ injectRecycleChan = <<>>
  /\ inputRecycleChan # <<>>

\* C7: RefCount >= 0; RefCount = 0 exactly when the Pack is resident, once, in
\* its home recycle channel; a Pack in flight has RefCount >= 1.
C7_RefCountDiscipline ==
  \A pack \in Packs :
    /\ RefCount[pack] >= 0
    /\ Resident(pack) <= 1
    /\ (RefCount[pack] = 0) <=> (Resident(pack) = 1)
    /\ Count(inputRecycleChan, pack) = 1 => HomeIsInput(pack)
    /\ Count(injectRecycleChan, pack) = 1 => ~HomeIsInput(pack)

\* an injected Pack is with the router, which has raised its RefCount for a
\* destination, while the other pool's Pack is resident
C7_Witness ==
  \E pack \in InjectPacks :
    /\ router.pack = pack
    /\ RefCount[pack] = 2
    /\ Resident(pack) = 0
    /\ \E other \in InputPacks : Resident(other) = 1 /\ RefCount[other] = 0

\* the sections the range loop has handed to loadSection
Attempted == configFile \ todo

\* a section whose plugin factory, ConfigStruct or Init, of the first
\* instance or of an instance minted for the pool, terminates abnormally
PluginCodePanics(s) ==
  \/ FactoryPanics(s)
  \/ /\ ~FactoryPanics(s)
     /\ s.decodeOK
     /\ PluginType(s) \in AvailablePlugins
     /\ \/ s.config = "panic"
        \/ s.config = "ok" /\ s.init = "panic"
        \/ /\ SectionError(s, EmptyMap, 0) = ""
           /\ PluginCategory(PluginType(s)) = "Decoder"
           /\ EffectivePoolSize(s) > 1
           /\ s.minted = "panic"

\* a section that does not install its plugin
Fails(s) == SectionError(s, EmptyMap, 0) # "" \/ PluginCodePanics(s)

Logged(name) == \E i \in DOMAIN logMsgs : logMsgs[i][2] = name

\* C8: the load attempts every section, the default ones included, and never
\* stops short of its final gate; every failing section that was attempted
\* stands for exactly one count and one message; an unknown type is logged as
\* "No such plugin: <section name>"; and a load of a decoded file returns
\* "<n> errors loading plugins" exactly when the final count n is not zero,
\* no error otherwise.
C8_EverySectionCounted ==
  /\ (todo # {} \/ phase # "done") => Alive
  /\ errcnt = Len(logMsgs)
  /\ errcnt = Cardinality({s \in Attempted : Fails(s)})
  /\ \A s \in Attempted :
       (s.decodeOK /\ PluginType(s) \notin AvailablePlugins)
         => \E i \in DOMAIN logMsgs : logMsgs[i] = <<"No such plugin: %s", s.name>>
  /\ (phase = "done" /\ loadErr # "Error decoding config file") =>
       /\ todo = {}
       /\ loadErr = IF errcnt # 0 THEN <<errcnt, "errors loading plugins">>
                    ELSE "nil"

\* C9: no abnormal termination of plugin code crashes the loader: every
\* attempted section whose factory, ConfigStruct or Init terminates abnormally,
\* for its first instance or for an instance minted for a decoder pool, is
\* logged as a load error of that section, and the loader is still running.
C9_PanicsTrapped ==
  /\ panicked = "none"
  /\ \A s \in Attempted : PluginCodePanics(s) => Logged(s.name)

\* the section that put name into DecoderWrappers
InstalledAs(name) ==
  IF \E s \in Attempted : s.name = name /\ SectionError(s, EmptyMap, 0) = ""
  THEN CHOOSE s \in Attempted : s.name = name /\ SectionError(s, EmptyMap, 0) = ""
  ELSE DefaultSection(name)

\* C10: every Decoder section that loads, with effective pool size p, leaves a
\* decoder channel of capacity p holding the p started DecoderRunners
\* "<section>-0" .. "<section>-(p-1)", all of them in allDecoders and counted
\* in decodersWg, also when an instance minted for the pool fails to
\* initialize; and loadSection comes back from it.
C10_DecoderPoolFilled ==
  /\ decodersWg = Len(allDecoders)
  /\ \A name \in DecoderWrappers :
       LET p == EffectivePoolSize(InstalledAs(name)) IN
       /\ Alive
       /\ name \in DOMAIN decoderChannels
       /\ decoderChannels[name].cap = p
       /\ [i \in 1..Len(decoderChannels[name].q) |-> decoderChannels[name].q[i].name]
            = [i \in 1..p |-> <<name, i - 1>>]
       /\ Cardinality({i \in DOMAIN allDecoders : allDecoders[i].name[1] = name}) = p

\* the consumers holding a runner of the pool name
HoldersOf(name) ==
  {c \in Consumers : checkedOut[c] # NoRunner /\ checkedOut[c].name[1] = name}

\* C11: in a decoder pool of size p used by concurrent consumers that take a
\* runner and send the same runner back, the runners checked out plus the
\* runners in the channel are always p (so at most p are checked out); a take
\* goes through only while the channel holds a runner, so with all p checked
\* out it waits for a return; and a consumer holding a runner always finds
\* room in the channel, so a return never blocks.
C11_PoolBackpressure ==
  \A name \in DOMAIN decoderChannels :
    LET p == EffectivePoolSize(InstalledAs(name))
        ch == decoderChannels[name]
    IN
    /\ Cardinality(HoldersOf(name)) + Len(ch.q) = p
    /\ Cardinality(HoldersOf(name)) <= p
    /\ HoldersOf(name) # {} => Len(ch.q) < ch.cap
    /\ Cardinality(HoldersOf(name)) = p =>
         /\ ch.q = <<>>
         /\ \A c \in Consumers : ~ENABLED DecoderTake(c, name)
    /\ \A c \in HoldersOf(name) : checkedOut[c] \notin SeqToSet(ch.q)

\* every runner of a pool is checked out while another consumer holds none
\* and so waits at its take
C11_Witness ==
  \E name \in DOMAIN decoderChannels :
    /\ phase = "done"
    /\ Cardinality(HoldersOf(name)) = decoderChannels[name].cap
    /\ \E c \in Consumers : checkedOut[c] = NoRunner

\* what a load of the built-in section name leaves behind
DefaultInstalled(name) ==
  LET d == DefaultSection(name) IN
  /\ DecoderWrappers' = DecoderWrappers \cup {name}
  /\ Header_MessageEncoding_value[d.encoding] \in DOMAIN DecodersByEncoding'
  /\ DecodersByEncoding'[Header_MessageEncoding_value[d.encoding]] = name
  /\ name \in DOMAIN decoderChannels'
  /\ decoderChannels'[name] = DecoderChan(d)
  /\ errcnt' - errcnt = Len(logMsgs') - Len(logMsgs)

C13_CapIsInclusive ==
  (ret.op = "regDecoderForHeader" /\ ret.name \in AvailablePlugins) =>
    /\ ret.num = MAX_HEADER_MESSAGEENCODING =>
         /\ ret.val = ""
         /\ MAX_HEADER_MESSAGEENCODING \in DOMAIN DecodersByEncoding
         /\ DecodersByEncoding[MAX_HEADER_MESSAGEENCODING] = ret.name
    /\ ret.num > MAX_HEADER_MESSAGEENCODING => ret.val # ""

\* a binding to the encoding whose id is the cap was just accepted
C13_Witness ==
  /\ ret.op = "regDecoderForHeader"
  /\ ret.num = MAX_HEADER_MESSAGEENCODING
  /\ ret.val = ""
  /\ topHeaderMessageEncoding = MAX_HEADER_MESSAGEENCODING

\* the largest key of a map of encoding ids, 0 for the empty map
TopKey(byEncoding) ==
  IF DOMAIN byEncoding = {} THEN 0
  ELSE CHOOSE k \in DOMAIN byEncoding : \A j \in DOMAIN byEncoding : j <= k

\* C14: after every regDecoderForHeader call topHeaderMessageEncoding is the
\* largest key of DecodersByEncoding (0 when it is empty) and every value of
\* DecodersByEncoding is in AvailablePlugins; a rejected call (unknown
\* encoding name, id out of range, decoder name not registered) leaves
\* DecodersByEncoding and topHeaderMessageEncoding as they were.
C14_TopIsMaxKey ==
  [][ret'.op = "regDecoderForHeader" =>
       /\ topHeaderMessageEncoding' = TopKey(DecodersByEncoding')
       /\ \A k \in DOMAIN DecodersByEncoding' :
            DecodersByEncoding'[k] \in AvailablePlugins
       /\ ret'.val # "" =>
            UNCHANGED <<DecodersByEncoding, topHeaderMessageEncoding>>
       /\ ret'.val = "" =>
            /\ ret'.num \in DOMAIN DecodersByEncoding'
            /\ DecodersByEncoding'[ret'.num] = ret'.name
    ]_vars

\* a call naming an unregistered decoder was just rejected with bindings in
\* place
C14_Witness ==
  /\ ret.op = "regDecoderForHeader"
  /\ ret.name \notin AvailablePlugins
  /\ ret.val = "No decoder registered as a plugin"
  /\ Cardinality(DOMAIN DecodersByEncoding) >= 2
  /\ topHeaderMessageEncoding = 1

\* a caller between the Lock and the Unlock of AddFilterRunner or
\* RemoveFilterRunner
InCriticalSection(p) == pc[p] \in {"add_send", "rm_send", "rm_close"}

\* C15: FilterRunners is only accessed under filtersLock: no step writes the
\* map while a Filter(name) lookup is reading it (and no lookup ends in the
\* runtime's concurrent-map-access error), and no two callers are inside the
\* critical sections of AddFilterRunner and RemoveFilterRunner at once.
C15_MapOnlyUnderLock ==
  [][/\ lookup # NoLookup => FilterRunners' = FilterRunners
     /\ panicked' # "concurrent map read and map write"
     /\ \A p, q \in Callers :
          (InCriticalSection(p)' /\ InCriticalSection(q)') => p = q
     /\ \A p \in Callers : InCriticalSection(p)' => filtersLock' = p
    ]_vars

Quiescent ==
  /\ \A p \in Callers : pc[p] = "idle"
  /\ router.pc # "ctl"

\* the runners stored in the FilterRunners map
Stored == {FilterRunners[n] : n \in DOMAIN FilterRunners}

\* C17: whenever no add or remove is in progress and the router has processed
\* every control event, a filter's Matcher is in the router's filter matchers
\* if and only if its runner is in FilterRunners; and the Matcher of a runner
\* whose add failed to start is never in the router.
C17_MatchersMirrorMap ==
  /\ Quiescent => \A r \in Runners : (r \in SeqToSet(fMatchers)) <=> (r \in Stored)
  /\ \A r \in Runners : rstate[r] = "failed" => r \notin SeqToSet(fMatchers)

\* C18: under fair scheduling every call of AddFilterRunner and
\* RemoveFilterRunner that is in progress eventually returns, and filtersLock
\* is eventually released by whoever holds it (unless the process has died).
C18_CallsReturn ==
  \A p \in Callers :
    /\ (pc[p] # "idle") ~> (pc[p] = "idle" \/ ~Alive)
    /\ (filtersLock = p) ~> (filtersLock = Free \/ ~Alive)

\* C19: every filter runner that was started and has not been removed (its
\* inbound channel is open) is the value stored under its name in
\* FilterRunners, so RemoveFilterRunner can still reach it.
C19_NoOrphan ==
  \A r \in Runners :
    (rstate[r] = "running" /\ ~closed[r]) =>
      /\ Name(r) \in DOMAIN FilterRunners
      /\ FilterRunners[Name(r)] = r

\* C20: every DecoderRunner started for a pool, and so every runner a decoder
\* channel holds, wraps a decoder whose Init returned without error.
C20_PoolRunnersInitialized ==
  /\ \A i \in DOMAIN allDecoders : allDecoders[i].ok
  /\ \A name \in DOMAIN decoderChannels :
       \A i \in DOMAIN decoderChannels[name].q : decoderChannels[name].q[i].ok

(***************************************************************************)
(* The outcome of a load as a function of the order of the sections.       *)
(***************************************************************************)
\* what a load leaves in the PipelineConfig, in the router and in the
\* package's encoding table; the matchers as sets
NoOutcome ==
  [InputRunners |-> {}, inputWrappers |-> {}, DecoderWrappers |-> {},
   FilterRunners |-> {}, filterWrappers |-> {}, OutputRunners |-> {},
   outputWrappers |-> {}, fMatchers |-> {}, oMatchers |-> {},
   decoderChannels |-> EmptyMap, DecodersByEncoding |-> EmptyMap,
   topHeaderMessageEncoding |-> 0, errcnt |-> 0]

\* the outcome of the load that is over
Observed ==
  [InputRunners |-> InputRunners, inputWrappers |-> inputWrappers,
   DecoderWrappers |-> DecoderWrappers, FilterRunners |-> DOMAIN FilterRunners,
   filterWrappers |-> filterWrappers, OutputRunners |-> OutputRunners,
   outputWrappers |-> outputWrappers, fMatchers |-> SeqToSet(fMatchers),
   oMatchers |-> SeqToSet(oMatchers), decoderChannels |-> decoderChannels,
   DecodersByEncoding |-> DecodersByEncoding,
   topHeaderMessageEncoding |-> topHeaderMessageEncoding, errcnt |-> errcnt]

\* lines 382-539: loadSection of a section whose plugin code does not panic,
\* as a function from outcome to outcome
SectionOutcome(o, s) ==
  IF SectionError(s, o.DecodersByEncoding, o.topHeaderMessageEncoding) # ""
  THEN [o EXCEPT !.errcnt = @ + 1]
  ELSE CASE PluginCategory(PluginType(s)) = "Decoder" ->
         LET reg == IF s.encoding = ""
                    THEN [byEncoding |-> o.DecodersByEncoding,
                          top |-> o.topHeaderMessageEncoding]
                    ELSE regDecoderForHeader(o.DecodersByEncoding,
                           o.topHeaderMessageEncoding, PluginType(s), s.encoding)
         IN [o EXCEPT !.DecodersByEncoding = reg.byEncoding,
                      !.topHeaderMessageEncoding = reg.top,
                      !.DecoderWrappers = @ \cup {s.name},
                      !.decoderChannels = MapPut(@, s.name, DecoderChan(s))]
       [] PluginCategory(PluginType(s)) = "Input" ->
         [o EXCEPT !.InputRunners = @ \cup {s.name},
                   !.inputWrappers = @ \cup {s.name}]
       [] PluginCategory(PluginType(s)) = "Filter" ->
         [o EXCEPT !.fMatchers = IF s.matcher # "" THEN @ \cup {s.name} ELSE @,
                   !.FilterRunners = @ \cup {s.name},
                   !.filterWrappers = @ \cup {s.name}]
       [] OTHER ->
         [o EXCEPT !.oMatchers = IF s.matcher # "" THEN @ \cup {s.name} ELSE @,
                   !.OutputRunners = @ \cup {s.name},
                   !.outputWrappers = @ \cup {s.name}]

\* lines 555-558: the range loop over the sections in the order given
RECURSIVE SectionsOutcome(_, _)
SectionsOutcome(o, order) ==
  IF order = <<>> THEN o
  ELSE SectionsOutcome(SectionOutcome(o, Head(order)), Tail(order))

\* lines 565-572: a default section, loaded when its name has no wrapper
DefaultOutcome(o, name) ==
  IF name \in o.DecoderWrappers THEN o
  ELSE SectionOutcome(o, DefaultSection(name))

\* lines 553-572: the load of the sections in the order given
LoadOutcome(order) ==
  DefaultOutcome(DefaultOutcome(SectionsOutcome(NoOutcome, order), "JsonDecoder"),
                 "ProtobufDecoder")

\* the orders in which the range loop can hand out the sections of a file
Orders(file) ==
  {order \in [1..Cardinality(file) -> file] :
     \A i, j \in 1..Cardinality(file) : order[i] = order[j] => i = j}

\* C21: the outcome of a load that ran to its end (runner and wrapper maps,
\* decoder pools, DecodersByEncoding, error count, sets of filter and output
\* matchers) is the outcome of the load of the same sections in every other
\* order.
C21_OrderIndependent ==
  (phase = "done" /\ loadErr # "Error decoding config file") =>
    \A order \in Orders(configFile) : Observed = LoadOutcome(order)

\* the section name is installed in this step in the maps of category cat and
\* in no other
InstalledIn(cat, name) ==
  /\ cat \in {"Decoder", "Filter", "Input", "Output"}
  /\ IF cat = "Decoder"
     THEN /\ name \in DecoderWrappers'
          /\ name \in DOMAIN decoderChannels'
     ELSE UNCHANGED <<DecoderWrappers, decoderChannels, allDecoders, decodersWg,
                      DecodersByEncoding, topHeaderMessageEncoding>>
  /\ IF cat = "Input"
     THEN name \in InputRunners' /\ name \in inputWrappers'
     ELSE UNCHANGED <<InputRunners, inputWrappers>>
  /\ IF cat = "Filter"
     THEN name \in DOMAIN FilterRunners' /\ name \in filterWrappers'
     ELSE UNCHANGED <<FilterRunners, filterWrappers, fMatchers>>
  /\ IF cat = "Output"
     THEN name \in OutputRunners' /\ name \in outputWrappers'
     ELSE UNCHANGED <<OutputRunners, outputWrappers, oMatchers>>

\* what C22 says of the step in which loadSection ran on section s and
\* returned
ErrorOrInstalled(s) ==
  /\ errcnt' # errcnt => UNCHANGED installVars
  /\ (errcnt' = errcnt /\ panicked' = "none") =>
       InstalledIn(PluginCategory(PluginType(s)), s.name)

\* C22: a section for which loadSection returns an error count adds no
\* runner, wrapper, decoder channel, router matcher or encoding binding, and
\* a section that loads is installed in the maps of exactly one category,
\* the one its resolved plugin type ends in; for user and default sections.
C22_ErrorInstallsNothing ==
  [][/\ \A s \in todo : todo' = todo \ {s} => ErrorOrInstalled(s)
     /\ (phase = "sections" /\ phase' = "protobuf"
           /\ "JsonDecoder" \notin DecoderWrappers)
          => ErrorOrInstalled(DefaultSection("JsonDecoder"))
     /\ (phase = "protobuf" /\ phase' = "gate"
           /\ "ProtobufDecoder" \notin DecoderWrappers)
          => ErrorOrInstalled(DefaultSection("ProtobufDecoder"))
    ]_vars

\* both user sections are done: one reported an error, the other is installed
\* as a filter with its matcher
C22_Witness ==
  /\ phase = "sections"
  /\ todo = {}
  /\ Cardinality(configFile) = 2
  /\ errcnt = 1
  /\ DOMAIN FilterRunners = {"F"}
  /\ fMatchers = <<"F">>
  /\ DecoderWrappers = {} /\ InputRunners = {} /\ OutputRunners = {}

====
